---- MODULE Spec2Model ----
(***************************************************************************)
(* A model of the e-Gov law API client (class ELaws of src/index.ts): the  *)
(* four public operations, the shared request pipeline, the Result         *)
(* decoder and the entity decoders.                                        *)
(*                                                                         *)
(* Text is a sequence of one-character strings.  A JavaScript number is a  *)
(* record [nan, v]; a Date is its time value, a number counted in minutes  *)
(* since the epoch (the code never looks below the calendar day), or NaN   *)
(* for an invalid Date.  A thrown value or a returned value is a record    *)
(* [ok, ...], so that every function is total and a failure is a value.    *)
(***************************************************************************)
EXTENDS Integers, Sequences, FiniteSets, TLC

VARIABLES tza, clock, pc, op, arg, startedAt, uri, fetchLog, httpRes, res,
          trail, outcome

vars == <<tza, clock, pc, op, arg, startedAt, uri, fetchLog, httpRes, res,
          trail, outcome>>

----------------------------------------------------------------------------
(* Bounds of the model. *)

\* The number of calls that may be in flight at once on one client.
MaxCalls == 2

----------------------------------------------------------------------------
(* JavaScript numbers and strings. *)

NaN == [nan |-> TRUE, v |-> 0]

Num(n) == [nan |-> FALSE, v |-> n]

\* x + k for a number x and an integer k:  NaN + 1 is NaN.
NumAdd(x, k) == IF x.nan THEN NaN ELSE Num(x.v + k)

\* The relational operators: a comparison with NaN is false.
NumLess(x, y) == ~x.nan /\ ~y.nan /\ x.v < y.v

NumGreater(x, y) == ~x.nan /\ ~y.nan /\ x.v > y.v

\* x !== k for a number x and an integer k:  NaN !== k is true.
NumStrictNotEqual(x, k) == x.nan \/ x.v # k

DigitChars == <<"0", "1", "2", "3", "4", "5", "6", "7", "8", "9">>

IsDigit(ch) == \E i \in 1..10 : DigitChars[i] = ch

DigitVal(ch) == (CHOOSE i \in 1..10 : DigitChars[i] = ch) - 1

HexChars == <<"0", "1", "2", "3", "4", "5", "6", "7", "8", "9",
              "a", "b", "c", "d", "e", "f">>

IsHexDigit(ch) == \E i \in 1..16 : HexChars[i] = ch

HexVal(ch) == (CHOOSE i \in 1..16 : HexChars[i] = ch) - 1

IsWhiteSpace(ch) == ch \in {" ", "\n", "\t"}

RECURSIVE NatToString(_)
NatToString(n) ==
    IF n < 10 THEN <<DigitChars[n + 1]>>
    ELSE NatToString(n \div 10) \o <<DigitChars[(n % 10) + 1]>>

\* String(x), as a template literal or a string concatenation applies it.
NumToString(x) ==
    IF x.nan THEN <<"N", "a", "N">>
    ELSE IF x.v < 0 THEN <<"-">> \o NatToString(0 - x.v)
    ELSE NatToString(x.v)

\* s.slice(start) for a negative start: the last -start characters.
SliceLast(s, k) ==
    IF Len(s) <= k THEN s ELSE SubSeq(s, Len(s) - k + 1, Len(s))

\* s.slice(from, to) for 0 <= from <= to, both clamped to the length.
SliceRange(s, from, to) ==
    LET f == IF from > Len(s) THEN Len(s) ELSE from
        t == IF to > Len(s) THEN Len(s) ELSE to
    IN  SubSeq(s, f + 1, t)

RECURSIVE TrimStart(_)
TrimStart(s) ==
    IF s # <<>> /\ IsWhiteSpace(Head(s)) THEN TrimStart(Tail(s)) ELSE s

\* The value of the longest prefix of s made of digits of the radix;
\* acc is the value read so far.
RECURSIVE ReadDigits(_, _, _)
ReadDigits(s, radix, acc) ==
    IF s = <<>> THEN acc
    ELSE IF radix = 10 /\ IsDigit(Head(s))
         THEN ReadDigits(Tail(s), radix, acc * 10 + DigitVal(Head(s)))
    ELSE IF radix = 16 /\ IsHexDigit(Head(s))
         THEN ReadDigits(Tail(s), radix, acc * 16 + HexVal(Head(s)))
    ELSE acc

StartsWithDigit(s, radix) ==
    /\ s # <<>>
    /\ IF radix = 16 THEN IsHexDigit(Head(s)) ELSE IsDigit(Head(s))

\* A variant that reads text without an integer as 0, as Number('') does.
ParseIntOrZero(text) ==
    LET t == TrimStart(text)
    IN  IF t # <<>> /\ IsDigit(Head(t)) THEN Num(ReadDigits(t, 10, 0))
        ELSE Num(0)

\* parseInt(text) with no radix: leading white space is skipped, a sign is
\* read, a 0x prefix selects radix 16, and the longest prefix of digits is
\* the value; no digit at all gives NaN.
ParseInt(text) ==
    LET t    == TrimStart(text)
        neg  == t # <<>> /\ Head(t) = "-"
        u    == IF t # <<>> /\ Head(t) \in {"-", "+"} THEN Tail(t) ELSE t
        hex  == Len(u) >= 2 /\ u[1] = "0" /\ u[2] \in {"x", "X"}
        body == IF hex THEN Tail(Tail(u)) ELSE u
        rad  == IF hex THEN 16 ELSE 10
    IN  IF ~StartsWithDigit(body, rad) THEN NaN
        ELSE IF neg THEN Num(0 - ReadDigits(body, rad, 0))
        ELSE Num(ReadDigits(body, rad, 0))

----------------------------------------------------------------------------
(* Dates: the calendar of ECMAScript's Date, over minutes. *)

MinPerDay == 24 * 60

\* The offset of the fixed zone the API's dates are in, +09:00.
JstOffset == 9 * 60

DayFromYear(y) ==
    365 * (y - 1970) + ((y - 1969) \div 4) - ((y - 1901) \div 100)
        + ((y - 1601) \div 400)

IsLeapYear(y) == (y % 4 = 0 /\ y % 100 # 0) \/ y % 400 = 0

DaysInMonth(y, m) ==
    IF m = 2 THEN (IF IsLeapYear(y) THEN 29 ELSE 28)
    ELSE IF m \in {4, 6, 9, 11} THEN 30 ELSE 31

RECURSIVE DaysBeforeMonth(_, _)
DaysBeforeMonth(y, m) ==
    IF m = 1 THEN 0 ELSE DaysBeforeMonth(y, m - 1) + DaysInMonth(y, m - 1)

Day(t) == t \div MinPerDay

YearFromTime(t) ==
    LET y0 == 1970 + (Day(t) \div 366)
    IN  CHOOSE y \in y0..(y0 + 2) :
            DayFromYear(y) <= Day(t) /\ Day(t) < DayFromYear(y + 1)

\* The month of t, 1..12 (getMonth() is this minus one).
MonthFromTime(t) ==
    LET y == YearFromTime(t)
        d == Day(t) - DayFromYear(y)
    IN  CHOOSE m \in 1..12 :
            DaysBeforeMonth(y, m) <= d
                /\ d < DaysBeforeMonth(y, m) + DaysInMonth(y, m)

DateFromTime(t) ==
    LET y == YearFromTime(t)
    IN  Day(t) - DayFromYear(y) - DaysBeforeMonth(y, MonthFromTime(t)) + 1

\* The time value of y-m-d hh:00 in the zone whose offset is off.
MakeTime(y, m, d, hh, off) ==
    (DayFromYear(y) + DaysBeforeMonth(y, m) + d - 1) * MinPerDay
        + hh * 60 - off

\* The getters read the date in the host's local zone: t + LocalTZA.
LocalTime(t, localTza) == t + localTza

getFullYear(date, localTza) ==
    IF date.nan THEN NaN ELSE Num(YearFromTime(LocalTime(date.v, localTza)))

getMonth(date, localTza) ==
    IF date.nan THEN NaN
    ELSE Num(MonthFromTime(LocalTime(date.v, localTza)) - 1)

getDate(date, localTza) ==
    IF date.nan THEN NaN ELSE Num(DateFromTime(LocalTime(date.v, localTza)))

AllDigits(s) == \A i \in 1..Len(s) : IsDigit(s[i])

\* new Date(`${y}-${m}-${d}T00:00:00.000+09:00`) for the three slices of an
\* 8-character date: the ISO format wants 4, 2 and 2 digits that name a day
\* of the calendar; anything else is an invalid Date.
DateOfJstMidnight(y, m, d) ==
    IF /\ Len(y) = 4 /\ Len(m) = 2 /\ Len(d) = 2
       /\ AllDigits(y) /\ AllDigits(m) /\ AllDigits(d)
       /\ ReadDigits(m, 10, 0) \in 1..12
       /\ ReadDigits(d, 10, 0) >= 1
       /\ ReadDigits(d, 10, 0)
              <= DaysInMonth(ReadDigits(y, 10, 0), ReadDigits(m, 10, 0))
    THEN Num(MakeTime(ReadDigits(y, 10, 0), ReadDigits(m, 10, 0),
                      ReadDigits(d, 10, 0), 0, JstOffset))
    ELSE NaN

----------------------------------------------------------------------------
(* Values a function returns or throws. *)

Return(v) == [ok |-> TRUE, val |-> v]

\* throw TypeError: a property of null was read.
ThrowTypeError == [ok |-> FALSE, val |-> [kind |-> "TypeError"]]

\* throw Error(message)
ThrowError(message) ==
    [ok |-> FALSE, val |-> [kind |-> "Error", message |-> message]]

\* throw RangeError(message); the two messages are named, not spelled.
ThrowRangeError(which) ==
    [ok |-> FALSE, val |-> [kind |-> "RangeError", message |-> which]]

\* throw res: the raw response of a transport outcome that is not ok.
ThrowResponse(r) ==
    [ok |-> FALSE, val |-> [kind |-> "Response", response |-> r]]

\* throw err: the parsererror element found in the parsed document.
ThrowParserError(e) ==
    [ok |-> FALSE, val |-> [kind |-> "parsererror", element |-> e]]

\* A rejected fetch: the transport's own error, rethrown by the await.
ThrowNetworkError == [ok |-> FALSE, val |-> [kind |-> "NetworkError"]]

----------------------------------------------------------------------------
(* The DOM: an element is its tag, its own text and its child elements in  *)
(* document order; null is an element of its own.                          *)

El(tag, text, kids) == [tag |-> tag, text |-> text, kids |-> kids]

Null == El("#null", <<>>, <<>>)

\* The elements of the sequence s and all their descendants, in document
\* order.
RECURSIVE Descendants(_)
Descendants(s) ==
    IF s = <<>> THEN <<>>
    ELSE <<Head(s)>> \o Descendants(Head(s).kids) \o Descendants(Tail(s))

\* The elements named tag among s and their descendants that lie below an
\* element named anc, in document order; inside: s is already below one.
RECURSIVE DescendantsBelow(_, _, _, _)
DescendantsBelow(s, anc, tag, inside) ==
    IF s = <<>> THEN <<>>
    ELSE (IF inside /\ Head(s).tag = tag THEN <<Head(s)>> ELSE <<>>)
         \o DescendantsBelow(Head(s).kids, anc, tag,
                             inside \/ Head(s).tag = anc)
         \o DescendantsBelow(Tail(s), anc, tag, inside)

FirstOrNull(s) == IF s = <<>> THEN Null ELSE Head(s)

\* e.querySelectorAll(tag): every descendant of e named tag.
querySelectorAll(e, tag) ==
    SelectSeq(Descendants(e.kids), LAMBDA x : x.tag = tag)

\* e.querySelector(tag): the first descendant of e named tag, or null.
querySelector(e, tag) == FirstOrNull(querySelectorAll(e, tag))

\* doc.querySelector(tag): the first element of the document named tag.
docQuerySelector(doc, tag) ==
    FirstOrNull(SelectSeq(Descendants(<<doc.root>>), LAMBDA x : x.tag = tag))

\* doc.querySelector('anc tag'): the first element named tag that has an
\* ancestor named anc.
docQuerySelectorBelow(doc, anc, tag) ==
    FirstOrNull(DescendantsBelow(<<doc.root>>, anc, tag, FALSE))

\* e.textContent: the text of e and of all its descendants.
RECURSIVE textContent(_)
RECURSIVE textContentAll(_)
textContent(e) == e.text \o textContentAll(e.kids)

textContentAll(s) ==
    IF s = <<>> THEN <<>> ELSE textContent(Head(s)) \o textContentAll(Tail(s))

\* parser.parseFromString(xml, 'application/xml').  A response body is
\* written as the tree it denotes, or as malformed text; the parser turns
\* malformed text into a document that holds a parsererror element.
parseFromString(xml) ==
    IF xml.wellFormed THEN [root |-> xml.root]
    ELSE [root |-> El("parsererror", <<"?">>, <<>>)]

\* A variant that returns the document without looking for the marker.
parseXMLUnchecked(xml) == Return(parseFromString(xml))

\* ELaws.parseXML
parseXML(xml) ==
    LET doc == parseFromString(xml)
        err == docQuerySelector(doc, "parsererror")
    IN  IF err # Null THEN ThrowParserError(err) ELSE Return(doc)

----------------------------------------------------------------------------
(* The Result decoder and the entity decoders. *)

\* Whether reading .textContent of querySelector(e, tag) throws for one of
\* the tags: e is null, or no descendant of e has the tag.
AnyMissing(e, tags) == e = Null \/ \E t \in tags : querySelector(e, t) = Null

\* querySelector(e, tag).textContent, where the element exists.
Text(e, tag) == textContent(querySelector(e, tag))

\* querySelector(e, tag)?.textContent: no value when there is no element.
OptionalText(e, tag) ==
    IF querySelector(e, tag) = Null THEN <<>> ELSE <<Text(e, tag)>>

\* Result.fromElement
Result_fromElement(result) ==
    IF AnyMissing(result, {"Code", "Message"}) THEN ThrowTypeError
    ELSE Return([code    |-> ParseInt(Text(result, "Code")),
                 message |-> Text(result, "Message")])

\* The PromulgationDate of both list entries, from its 8 characters.
PromulgationDateOf(d) ==
    DateOfJstMidnight(SliceRange(d, 0, 4), SliceRange(d, 4, 6),
                      SliceRange(d, 6, 8))

\* f applied to every element of s in order; the first failure is thrown.
RECURSIVE MapDecode(_, _)
MapDecode(f(_), s) ==
    IF s = <<>> THEN Return(<<>>)
    ELSE LET h == f(Head(s))
         IN  IF ~h.ok THEN h
             ELSE LET t == MapDecode(f, Tail(s))
                  IN  IF ~t.ok THEN t ELSE Return(<<h.val>> \o t.val)

\* LawNameListInfo.fromElement
LawNameListInfo_fromElement(info) ==
    IF AnyMissing(info, {"LawId", "LawName", "LawNo", "PromulgationDate"})
    THEN ThrowTypeError
    ELSE Return([LawId   |-> Text(info, "LawId"),
                 LawName |-> Text(info, "LawName"),
                 LawNo   |-> Text(info, "LawNo"),
                 PromulgationDate |->
                     PromulgationDateOf(Text(info, "PromulgationDate"))])

\* Lawlists.fromElement
Lawlists_fromElement(e) ==
    IF AnyMissing(e, {"Category"}) THEN ThrowTypeError
    ELSE LET infos == MapDecode(LawNameListInfo_fromElement,
                                querySelectorAll(e, "LawNameListInfo"))
         IN  IF ~infos.ok THEN infos
             ELSE Return([Category |-> ParseInt(Text(e, "Category")),
                          LawNameListInfo |-> infos.val])

\* Lawdata.fromElement
Lawdata_fromElement(e) ==
    IF AnyMissing(e, {"LawId", "LawNum", "LawFullText"}) THEN ThrowTypeError
    ELSE Return([LawId       |-> Text(e, "LawId"),
                 LawNum      |-> Text(e, "LawNum"),
                 LawFullText |-> Text(e, "LawFullText"),
                 ImageData   |-> OptionalText(e, "ImageData")])

\* Articles.fromElement
Articles_fromElement(e) ==
    IF AnyMissing(e, {"LawId", "LawNum", "Article", "Paragraph",
                      "AppdxTable", "LawContents"})
    THEN ThrowTypeError
    ELSE LET a == querySelector(e, "AppdxTableTitleLists")
             titles == querySelectorAll(a, "AppdxTableTitle")
         IN  Return([LawId       |-> Text(e, "LawId"),
                     LawNum      |-> Text(e, "LawNum"),
                     Article     |-> Text(e, "Article"),
                     Paragraph   |-> Text(e, "Paragraph"),
                     AppdxTable  |-> Text(e, "AppdxTable"),
                     LawContents |-> Text(e, "LawContents"),
                     AppdxTableTitleLists |->
                         IF a = Null THEN <<>>
                         ELSE <<[AppdxTableTitle |->
                                   [i \in 1..Len(titles) |->
                                       textContent(titles[i])]]>>,
                     ImageData   |-> OptionalText(e, "ImageData")])

\* LawNameListInfo2.fromElement
LawNameListInfo2_fromElement(info) ==
    IF AnyMissing(info, {"LawTypeName", "LawNo", "LawName", "LawNameKana",
                         "OldLawName", "PromulgationDate", "AmendName",
                         "AmendNo", "AmendPromulgationDate",
                         "EnforcementDate", "EnforcementComment", "LawId",
                         "LawUrl", "EnforcementFlg", "AuthFlg"})
    THEN ThrowTypeError
    ELSE Return([LawTypeName |-> ParseInt(Text(info, "LawTypeName")),
                 LawNo       |-> Text(info, "LawNo"),
                 LawName     |-> Text(info, "LawName"),
                 LawNameKana |-> Text(info, "LawNameKana"),
                 OldLawName  |-> Text(info, "OldLawName"),
                 PromulgationDate |->
                     PromulgationDateOf(Text(info, "PromulgationDate")),
                 AmendName   |-> Text(info, "AmendName"),
                 AmendNo     |-> Text(info, "AmendNo"),
                 AmendPromulgationDate |->
                     Text(info, "AmendPromulgationDate"),
                 EnforcementDate    |-> Text(info, "EnforcementDate"),
                 EnforcementComment |-> Text(info, "EnforcementComment"),
                 LawId       |-> Text(info, "LawId"),
                 LawUrl      |-> Text(info, "LawUrl"),
                 EnforcementFlg |-> ParseInt(Text(info, "EnforcementFlg")),
                 AuthFlg     |-> ParseInt(Text(info, "AuthFlg"))])

\* Updatelawlists.fromElement
Updatelawlists_fromElement(e) ==
    IF AnyMissing(e, {"Date"}) THEN ThrowTypeError
    ELSE LET infos == MapDecode(LawNameListInfo2_fromElement,
                                querySelectorAll(e, "LawNameListInfo"))
         IN  IF ~infos.ok THEN infos
             ELSE Return([Date |-> ParseInt(Text(e, "Date")),
                          LawNameListInfo |-> infos.val])

----------------------------------------------------------------------------
(* The request builder. *)

\* ELaws.version
version == 1

\* ELaws.baseUrl
baseUrl ==
    <<"h", "t", "t", "p", "s", ":", "/", "/", "e", "l", "a", "w", "s", ".",
      "e", "-", "g", "o", "v", ".", "g", "o", ".", "j", "p", "/", "a", "p",
      "i", "/">>
        \o NumToString(Num(version))

\* The field names of GetArticlesOption.
KeyLawNum == <<"l", "a", "w", "N", "u", "m">>

KeyLawId == <<"l", "a", "w", "I", "d">>

KeyArticle == <<"a", "r", "t", "i", "c", "l", "e">>

KeyParagraph == <<"p", "a", "r", "a", "g", "r", "a", "p", "h">>

KeyAppdxTable == <<"a", "p", "p", "d", "x", "T", "a", "b", "l", "e">>

\* A variant that writes the fields in the order the interface declares
\* them, whatever order the object lists them in.
EntrySegmentsInDeclaredOrder(params) ==
    LET declared == <<KeyLawNum, KeyLawId, KeyArticle, KeyParagraph,
                      KeyAppdxTable>>
        OfKey(key) == SelectSeq(params, LAMBDA e : e.k = key)
        Seg(key) == IF OfKey(key) = <<>> THEN <<>>
                    ELSE <<key \o <<"=">> \o OfKey(key)[1].v>>
    IN  Seg(declared[1]) \o Seg(declared[2]) \o Seg(declared[3])
            \o Seg(declared[4]) \o Seg(declared[5])

\* `${k}=${v}` for every entry of the parameter object, in the order
\* Object.entries lists them: the order the object's fields were written.
RECURSIVE EntrySegments(_)
EntrySegments(params) ==
    IF params = <<>> THEN <<>>
    ELSE <<Head(params).k \o <<"=">> \o Head(params).v>>
         \o EntrySegments(Tail(params))

\* p.join(sep)
RECURSIVE Join(_, _)
Join(p, sep) ==
    IF p = <<>> THEN <<>>
    ELSE IF Len(p) = 1 THEN Head(p)
    ELSE Head(p) \o sep \o Join(Tail(p), sep)

LawlistsPath == <<"/", "l", "a", "w", "l", "i", "s", "t", "s", "/">>

LawdataPath == <<"/", "l", "a", "w", "d", "a", "t", "a", "/">>

ArticlesPath == <<"/", "a", "r", "t", "i", "c", "l", "e", "s", ";">>

UpdatelawlistsPath ==
    <<"/", "u", "p", "d", "a", "t", "e", "l", "a", "w", "l", "i", "s", "t",
      "s", "/">>

LawlistsUri(category) == baseUrl \o LawlistsPath \o NumToString(category)

LawdataUri(id) == baseUrl \o LawdataPath \o id

ArticlesUri(params) ==
    baseUrl \o ArticlesPath \o Join(EntrySegments(params), <<";">>)

\* new Date('2020-11-24T00:00:00.000+09:00')
MinDate == Num(MakeTime(2020, 11, 24, 0, JstOffset))

\* A variant that rejects the lower bound too: date <= min.
TooEarlyInclusive(date) ==
    NumLess(date, Num(MakeTime(2020, 11, 24, 0, JstOffset) + 1))

\* date < min
TooEarly(date) == NumLess(date, MinDate)

\* date > new Date()
InFuture(date, now) == NumGreater(date, now)

\* ('00' + n).slice(-2)
TwoDigits(n) == SliceLast(<<"0", "0">> \o NumToString(n), 2)

\* `${yyyy}${MM}${dd}`, read with the getters of the host's local zone.
DateSegment(date, localTza) ==
    NumToString(getFullYear(date, localTza))
        \o TwoDigits(NumAdd(getMonth(date, localTza), 1))
        \o TwoDigits(getDate(date, localTza))

UpdatelawlistsUri(date, localTza) ==
    baseUrl \o UpdatelawlistsPath \o DateSegment(date, localTza)

\* The URI an operation builds from its argument a, a record that holds
\* the parameter of the operation called: the category of getLawlists, the
\* id of getLawdata, the params of getArticles, the date of
\* getUpdatelawlists.
UriOf(o, a, localTza) ==
    CASE o = "getLawlists"       -> LawlistsUri(a.category)
      [] o = "getLawdata"        -> LawdataUri(a.id)
      [] o = "getArticles"       -> ArticlesUri(a.params)
      [] o = "getUpdatelawlists" -> UpdatelawlistsUri(a.date, localTza)

\* What an operation does before it calls request: getUpdatelawlists
\* checks the range of its date, the others check nothing.
Precheck(o, a, now) ==
    IF o # "getUpdatelawlists" THEN Return("ok")
    ELSE IF TooEarly(a.date) THEN ThrowRangeError("too early")
    ELSE IF InFuture(a.date, now) THEN ThrowRangeError("future date")
    ELSE Return("ok")

----------------------------------------------------------------------------
(* The client facade. *)

\* A variant in which every operation accepts code 2 as getArticles does.
AcceptsCandidatesToo(o, code) ==
    ~(NumStrictNotEqual(code, 0) /\ NumStrictNotEqual(code, 2))

\* A variant in which getArticles accepts code 0 alone, as the others do.
AcceptsNormalOnly(o, code) == ~NumStrictNotEqual(code, 0)

\* The status check of an operation: whether the envelope's code lets the
\* payload be decoded.
Accepts(o, code) ==
    IF o = "getArticles"
    THEN ~(NumStrictNotEqual(code, 0) /\ NumStrictNotEqual(code, 2))
    ELSE ~NumStrictNotEqual(code, 0)

\* The entity decoder of an operation.
Decode(o, data) ==
    CASE o = "getLawlists"       -> Lawlists_fromElement(data)
      [] o = "getLawdata"        -> Lawdata_fromElement(data)
      [] o = "getArticles"       -> Articles_fromElement(data)
      [] o = "getUpdatelawlists" -> Updatelawlists_fromElement(data)

\* What request makes of a parsed document: the decoded envelope spread
\* into an object together with the payload element.
Envelope(doc) ==
    LET r == Result_fromElement(
                 docQuerySelectorBelow(doc, "DataRoot", "Result"))
    IN  IF ~r.ok THEN r
        ELSE Return([code    |-> r.val.code,
                     message |-> r.val.message,
                     data    |-> docQuerySelectorBelow(doc, "DataRoot",
                                                       "ApplData")])

\* The rest of an operation once request has returned the envelope e.
AfterRequest(o, e) ==
    IF ~Accepts(o, e.code) THEN ThrowError(e.message) ELSE Decode(o, e.data)

----------------------------------------------------------------------------
(* The environment: the arguments callers pass and the responses the       *)
(* transport gives.  A response answers any request: the client does not   *)
(* choose what the server sends.                                           *)

Leaf(tag, text) == El(tag, text, <<>>)

Without(kids, tag) == SelectSeq(kids, LAMBDA k : k.tag # tag)

ResultEl(codeText, message) ==
    El("Result", <<>>, <<Leaf("Code", codeText), Leaf("Message", message)>>)

ApplData(kids) == El("ApplData", <<>>, kids)

DataRoot(result, data) == El("DataRoot", <<>>, <<result, data>>)

\* The full text of a law is the law's own XML, which names its number.
LawXml ==
    El("Law", <<>>, <<Leaf("LawNum", <<"n", "9">>), Leaf("LawBody", <<"b">>)>>)

LawdataKids ==
    <<Leaf("LawId", <<"i", "1">>), Leaf("LawNum", <<"n", "1">>),
      El("LawFullText", <<>>, <<LawXml>>), Leaf("ImageData", <<"z">>)>>

LawdataFlatKids ==
    <<Leaf("LawId", <<"i", "1">>), Leaf("LawNum", <<"n", "1">>),
      Leaf("LawFullText", <<"f">>)>>

LawdataPayloads ==
    {ApplData(LawdataKids), ApplData(LawdataFlatKids)}
    \cup {ApplData(Without(LawdataKids, g)) :
              g \in {"LawId", "LawNum", "LawFullText", "ImageData"}}
    \cup {ApplData(Without(LawdataFlatKids, g)) :
              g \in {"LawId", "LawNum", "LawFullText"}}

ArticlesKids ==
    <<Leaf("LawId", <<"i", "1">>), Leaf("LawNum", <<"n", "1">>),
      Leaf("Article", <<"3">>), Leaf("Paragraph", <<>>),
      Leaf("AppdxTable", <<>>), Leaf("LawContents", <<"c">>)>>

TitleLists ==
    El("AppdxTableTitleLists", <<>>,
       <<Leaf("AppdxTableTitle", <<"t", "2">>),
         Leaf("AppdxTableTitle", <<"t", "1">>)>>)

ArticlesPayloads ==
    {ApplData(ArticlesKids), ApplData(ArticlesKids \o <<TitleLists>>),
     ApplData(ArticlesKids \o <<Leaf("ImageData", <<"z">>)>>)}
    \cup {ApplData(Without(ArticlesKids, g)) :
              g \in {"LawId", "LawNum", "Article", "Paragraph",
                     "AppdxTable", "LawContents"}}

EntryKids(n) ==
    <<Leaf("LawId", <<"i", n>>), Leaf("LawName", <<"m", n>>),
      Leaf("LawNo", <<"o", n>>),
      Leaf("PromulgationDate", <<"2", "0", "2", "0", "1", "1", "2", n>>)>>

Entry(kids) == El("LawNameListInfo", <<>>, kids)

LawlistsPayloads ==
    {ApplData(<<Leaf("Category", <<"1">>)>>),
     ApplData(<<Leaf("Category", <<"1">>), Entry(EntryKids("4")),
                Entry(EntryKids("5"))>>),
     ApplData(<<Leaf("Category", <<"9">>), Entry(EntryKids("x"))>>),
     ApplData(<<Entry(EntryKids("4"))>>)}
    \cup {ApplData(<<Leaf("Category", <<"1">>), Entry(EntryKids("4")),
                     Entry(Without(EntryKids("5"), g))>>) :
              g \in {"LawId", "LawName", "LawNo", "PromulgationDate"}}

Entry2Kids ==
    <<Leaf("LawTypeName", <<"2">>), Leaf("LawNo", <<"o">>),
      Leaf("LawName", <<"m">>), Leaf("LawNameKana", <<"k">>),
      Leaf("OldLawName", <<>>),
      Leaf("PromulgationDate", <<"2", "0", "2", "1", "0", "2", "2", "8">>),
      Leaf("AmendName", <<"a">>), Leaf("AmendNo", <<"b">>),
      Leaf("AmendPromulgationDate", <<"d">>),
      Leaf("EnforcementDate", <<"e">>), Leaf("EnforcementComment", <<>>),
      Leaf("LawId", <<"i">>), Leaf("LawUrl", <<"u">>),
      Leaf("EnforcementFlg", <<"0">>), Leaf("AuthFlg", <<"1">>)>>

Entry2Tags == {Entry2Kids[i].tag : i \in 1..Len(Entry2Kids)}

UpdatelawlistsPayloads ==
    {ApplData(<<Leaf("Date", <<"2", "0", "2", "0", "1", "1", "2", "4">>)>>),
     ApplData(<<Leaf("Date", <<"2", "0", "2", "0", "1", "1", "2", "4">>),
                Entry(Entry2Kids)>>),
     ApplData(<<Entry(Entry2Kids)>>)}
    \cup {ApplData(<<Leaf("Date", <<"2", "0", "2", "0", "1", "1", "2", "4">>),
                     Entry(Without(Entry2Kids, g))>>) : g \in Entry2Tags}

CodeTexts ==
    {<<"0">>, <<"1">>, <<"2">>, <<"3">>, <<"x">>, <<>>, <<"2", "x">>,
     <<" ", "0">>, <<"-", "1">>, <<"0", "x", "2">>, <<"0", "x">>}

GoodPayloads ==
    {ApplData(LawdataKids), ApplData(ArticlesKids \o <<TitleLists>>),
     ApplData(<<Leaf("Category", <<"1">>), Entry(EntryKids("4"))>>),
     ApplData(<<Leaf("Date", <<"2", "0", "2", "0", "1", "1", "2", "4">>),
                Entry(Entry2Kids)>>)}

\* Documents that break the envelope or the document's shape.
OddRoots ==
    {\* no payload element
     El("DataRoot", <<>>, <<ResultEl(<<"0">>, <<>>)>>),
     \* no envelope
     El("DataRoot", <<>>, <<ApplData(LawdataKids)>>),
     \* an envelope without Code, one without Message
     DataRoot(El("Result", <<>>, <<Leaf("Message", <<"m">>)>>),
              ApplData(LawdataKids)),
     DataRoot(El("Result", <<>>, <<Leaf("Code", <<"0">>)>>),
              ApplData(LawdataKids)),
     \* Code only below Message
     DataRoot(El("Result", <<>>,
                 <<El("Message", <<"m">>, <<Leaf("Code", <<"0">>)>>)>>),
              ApplData(LawdataKids)),
     \* the envelope and the payload not below DataRoot
     El("Root", <<>>, <<ResultEl(<<"0">>, <<>>), ApplData(LawdataKids)>>),
     \* a well-formed document that holds a parsererror element
     DataRoot(ResultEl(<<"0">>, <<>>),
              ApplData(LawdataKids \o <<Leaf("parsererror", <<"?">>)>>)),
     \* a parsererror document as the parser builds it
     El("parsererror", <<"?">>, <<>>)}

Roots ==
    {DataRoot(ResultEl(c, <<"m">>), d) : c \in CodeTexts, d \in GoodPayloads}
    \cup {DataRoot(ResultEl(<<"0">>, <<>>), d) :
              d \in LawdataPayloads \cup ArticlesPayloads
                    \cup LawlistsPayloads \cup UpdatelawlistsPayloads}
    \cup {DataRoot(ResultEl(<<"2">>, <<"m">>), d) : d \in ArticlesPayloads}
    \cup OddRoots

Body(root) == [wellFormed |-> TRUE, root |-> root]

Malformed == [wellFormed |-> FALSE, root |-> Null]

Bodies == {Body(r) : r \in Roots} \cup {Malformed}

\* A transport outcome: fetch rejects, or resolves with a response that is
\* ok or not and has a body, which can be read or not.
Rejected ==
    [rejected |-> TRUE, ok |-> FALSE, readable |-> FALSE, body |-> Malformed]

Response(ok, body) ==
    [rejected |-> FALSE, ok |-> ok, readable |-> TRUE, body |-> body]

\* A response whose body cannot be read: res.text() rejects.
Unreadable ==
    [rejected |-> FALSE, ok |-> TRUE, readable |-> FALSE, body |-> Malformed]

NoResponse ==
    [rejected |-> FALSE, ok |-> FALSE, readable |-> FALSE, body |-> Malformed]

Outcomes ==
    {Rejected, Unreadable, Response(FALSE, Malformed),
     Response(FALSE, Body(DataRoot(ResultEl(<<"0">>, <<>>),
                                   ApplData(LawdataKids))))}
    \cup {Response(TRUE, b) : b \in Bodies}

Param(k, v) == [k |-> k, v |-> v]

PLawId == Param(KeyLawId, <<"4", "0", "5">>)

PLawNum == Param(KeyLawNum, <<"H", "5">>)

PArticle == Param(KeyArticle, <<"3">>)

PParagraph == Param(KeyParagraph, <<"2">>)

PAppdxTable == Param(KeyAppdxTable, <<"T">>)

\* The parameter objects of getArticles, each the sequence of its fields
\* in the order the caller wrote them.
ArticlesArgs ==
    {<<PLawId, PArticle>>, <<PLawNum, PParagraph>>,
     <<PLawId, PArticle, PParagraph>>, <<PLawId, PParagraph, PArticle>>,
     <<PArticle, PLawNum>>, <<PLawNum, PAppdxTable>>,
     <<PArticle>>, <<PArticle, PParagraph>>, <<PParagraph, PArticle>>}

\* The instants the clock shows: 2021-01-01 08:30 and 2021-03-01 00:10 in
\* the zone +09:00.
Instants ==
    {MakeTime(2021, 1, 1, 8, JstOffset) + 30,
     MakeTime(2021, 3, 1, 0, JstOffset) + 10}

\* The offsets of the host's zone, in minutes: -12:00, -05:00, +00:00,
\* +05:30, +09:00, +14:00.
ZoneOffsets == {0 - 12 * 60, 0 - 5 * 60, 0, 5 * 60 + 30, JstOffset, 14 * 60}

\* The dates passed to getUpdatelawlists when the clock shows now: an
\* invalid Date, and dates on both sides of the lower bound, of midnight
\* in other zones, and of now.
DateArgs(now) ==
    {NaN}
    \cup {Num(MinDate.v + k) : k \in {0 - 1, 0, 1, 9 * 60 - 1, 9 * 60,
                                     15 * 60, 21 * 60}}
    \cup {Num(now + k) : k \in {0 - 1, 0, 1}}

NoArg == [category |-> NaN, id |-> <<>>, params |-> <<>>, date |-> NaN]

ArgsOf(o, now) ==
    CASE o = "getLawlists" ->
             {[NoArg EXCEPT !.category = Num(1)]}
      [] o = "getLawdata" ->
             {[NoArg EXCEPT !.id = i] :
                  i \in {<<"4", "0", "5">>, <<"H", "5">>}}
      [] o = "getArticles" ->
             {[NoArg EXCEPT !.params = p] : p \in ArticlesArgs}
      [] o = "getUpdatelawlists" ->
             {[NoArg EXCEPT !.date = d] : d \in DateArgs(now)}

Ops == {"getLawlists", "getLawdata", "getArticles", "getUpdatelawlists"}

\* The smaller environment of the calls that run side by side.
ConcArgsOf(o, now) ==
    CASE o = "getLawlists" -> {}
      [] o = "getLawdata" -> {[NoArg EXCEPT !.id = <<"4", "0", "5">>]}
      [] o = "getArticles" ->
             {[NoArg EXCEPT !.params = <<PLawId, PAppdxTable>>]}
      [] o = "getUpdatelawlists" -> {[NoArg EXCEPT !.date = Num(now + 1)]}

ConcOutcomes ==
    {Response(FALSE, Malformed), Unreadable,
     Response(TRUE, Body(DataRoot(ResultEl(<<"0">>, <<>>),
                                  ApplData(LawdataKids)))),
     Response(TRUE, Body(DataRoot(ResultEl(<<"2">>, <<"m">>),
                                  ApplData(ArticlesKids \o <<TitleLists>>))))}

----------------------------------------------------------------------------
(* The state machine.  A call is one invocation of a public operation; it  *)
(* is suspended at each await (of fetch, of res.text(), of request) and    *)
(* runs without interruption between two of them.                          *)
(*   tza        the host's zone offset, in minutes                         *)
(*   clock      the current instant, what new Date() reads                 *)
(*   pc         where each call is: idle, fetch, text, resume, done        *)
(*   op, arg    the operation a call runs and its argument                 *)
(*   startedAt  the instant the call was made at                           *)
(*   uri        the call's local uri                                       *)
(*   fetchLog   the URLs the call has passed to the transport              *)
(*   httpRes    the transport's outcome for the call                       *)
(*   res        the value request returned to the call                     *)
(*   trail      the stages the call has run, in order                      *)
(*   outcome    what the call returned or threw, once done                 *)
(***************************************************************************)

Calls == 1..MaxCalls

NoEnvelope == [code |-> NaN, message |-> <<>>, data |-> Null]

Pending == [ok |-> FALSE, val |-> [kind |-> "pending"]]

FirstInstant == CHOOSE t \in Instants : \A u \in Instants : t <= u

InitCalls ==
    /\ pc = [c \in Calls |-> "idle"]
    /\ op = [c \in Calls |-> "none"]
    /\ arg = [c \in Calls |-> NoArg]
    /\ startedAt = [c \in Calls |-> 0]
    /\ uri = [c \in Calls |-> <<>>]
    /\ fetchLog = [c \in Calls |-> <<>>]
    /\ httpRes = [c \in Calls |-> NoResponse]
    /\ res = [c \in Calls |-> NoEnvelope]
    /\ trail = [c \in Calls |-> <<>>]
    /\ outcome = [c \in Calls |-> Pending]

Init ==
    /\ tza \in ZoneOffsets
    /\ clock = FirstInstant
    /\ InitCalls

InitConc ==
    /\ tza = 0
    /\ clock = FirstInstant
    /\ InitCalls

\* A variant in which the response is kept in one slot all calls share.
sharedResponse(c) == httpRes[1]

\* The response a call reads the body of: the one its own fetch gave it,
\* held in a local of request.
ownResponse(c) == httpRes[c]

\* The call ends: it returns or throws v.
Settle(c, v) ==
    /\ pc' = [pc EXCEPT ![c] = "done"]
    /\ outcome' = [outcome EXCEPT ![c] = v]

\* A caller invokes operation o with argument a: the operation runs up to
\* its first await, inside request, where fetch has been called.
Invoke(c, o, a) ==
    /\ pc[c] = "idle"
    /\ op' = [op EXCEPT ![c] = o]
    /\ arg' = [arg EXCEPT ![c] = a]
    /\ startedAt' = [startedAt EXCEPT ![c] = clock]
    /\ IF Precheck(o, a, Num(clock)).ok
       THEN /\ uri' = [uri EXCEPT ![c] = UriOf(o, a, tza)]
            /\ fetchLog' = [fetchLog EXCEPT ![c] = Append(@, UriOf(o, a, tza))]
            /\ trail' = [trail EXCEPT ![c] = Append(@, "fetch")]
            /\ pc' = [pc EXCEPT ![c] = "fetch"]
            /\ UNCHANGED outcome
       ELSE /\ Settle(c, Precheck(o, a, Num(clock)))
            /\ UNCHANGED <<uri, fetchLog, trail>>
    /\ UNCHANGED <<tza, clock, httpRes, res>>

\* The transport settles the call's fetch with outcome r: request throws
\* a response that is not ok, and otherwise asks for the body's text.
FetchSettles(c, r) ==
    /\ pc[c] = "fetch"
    /\ httpRes' = [httpRes EXCEPT ![c] = r]
    /\ IF r.rejected
       THEN Settle(c, ThrowNetworkError) /\ UNCHANGED trail
       ELSE IF ~r.ok
       THEN Settle(c, ThrowResponse(r)) /\ UNCHANGED trail
       ELSE /\ pc' = [pc EXCEPT ![c] = "text"]
            /\ trail' = [trail EXCEPT ![c] = Append(@, "text")]
            /\ UNCHANGED outcome
    /\ UNCHANGED <<tza, clock, op, arg, startedAt, uri, fetchLog, res>>

\* The body's text arrives: request parses it, decodes the envelope,
\* looks the payload element up and returns.
BodyArrives(c) ==
    /\ pc[c] = "text"
    /\ ownResponse(c).readable
    /\ LET doc == parseXML(ownResponse(c).body)
       IN  IF ~doc.ok
           THEN /\ Settle(c, doc)
                /\ trail' = [trail EXCEPT ![c] = Append(@, "parseXML")]
                /\ UNCHANGED res
           ELSE IF ~Envelope(doc.val).ok
           THEN /\ Settle(c, Envelope(doc.val))
                /\ trail' = [trail EXCEPT ![c] = @ \o <<"parseXML", "Result">>]
                /\ UNCHANGED res
           ELSE /\ res' = [res EXCEPT ![c] = Envelope(doc.val).val]
                /\ pc' = [pc EXCEPT ![c] = "resume"]
                /\ trail' = [trail EXCEPT ![c] = @ \o <<"parseXML", "Result">>]
                /\ UNCHANGED outcome
    /\ UNCHANGED <<tza, clock, op, arg, startedAt, uri, fetchLog, httpRes>>

\* Reading the body fails: res.text() rejects and request throws.
BodyFails(c) ==
    /\ pc[c] = "text"
    /\ ~ownResponse(c).readable
    /\ Settle(c, ThrowNetworkError)
    /\ UNCHANGED <<tza, clock, op, arg, startedAt, uri, fetchLog, httpRes,
                   res, trail>>

\* The operation resumes with what request returned: it checks the status
\* code and decodes the payload.
Resume(c) ==
    /\ pc[c] = "resume"
    /\ Settle(c, AfterRequest(op[c], res[c]))
    /\ trail' = [trail EXCEPT ![c] =
                    IF Accepts(op[c], res[c].code)
                    THEN @ \o <<"status", "decode">>
                    ELSE @ \o <<"status">>]
    /\ UNCHANGED <<tza, clock, op, arg, startedAt, uri, fetchLog, httpRes,
                   res>>

\* Time passes.
Tick ==
    /\ \E t \in Instants : t > clock
    /\ clock' = CHOOSE t \in Instants :
                    t > clock /\ \A u \in Instants : u > clock => t <= u
    /\ UNCHANGED <<tza, pc, op, arg, startedAt, uri, fetchLog, httpRes, res,
                   trail, outcome>>

\* One client with one call at a time, in the full environment.
Next ==
    \/ \E o \in Ops : \E a \in ArgsOf(o, clock) : Invoke(1, o, a)
    \/ \E r \in Outcomes : FetchSettles(1, r)
    \/ BodyArrives(1)
    \/ BodyFails(1)
    \/ Resume(1)
    \/ Tick

Spec == Init /\ [][Next]_vars

\* One client with several calls in flight, their steps interleaved.
NextConc ==
    \/ \E c \in Calls : \E o \in Ops : \E a \in ConcArgsOf(o, clock) :
           Invoke(c, o, a)
    \/ \E c \in Calls : \E r \in ConcOutcomes : FetchSettles(c, r)
    \/ \E c \in Calls : BodyArrives(c)
    \/ \E c \in Calls : BodyFails(c)
    \/ \E c \in Calls : Resume(c)
    \/ Tick

SpecConc == InitConc /\ [][NextConc]_vars

----------------------------------------------------------------------------
(* What the properties below speak of. *)

\* The call has run the stage.
Ran(c, stage) == \E i \in 1..Len(trail[c]) : trail[c][i] = stage

Thrown(c, kind) ==
    pc[c] = "done" /\ ~outcome[c].ok /\ outcome[c].val.kind = kind

\* The document, the envelope element and the payload element of the
\* response the transport gave the call.
ResponseDoc(c) == parseFromString(httpRes[c].body)

EnvelopeEl(c) == docQuerySelectorBelow(ResponseDoc(c), "DataRoot", "Result")

PayloadEl(c) == docQuerySelectorBelow(ResponseDoc(c), "DataRoot", "ApplData")

HasElement(e, tag) == querySelectorAll(e, tag) # <<>>

HasChild(e, tag) == \E i \in 1..Len(e.kids) : e.kids[i].tag = tag

ChildrenNamed(e, tag) == SelectSeq(e.kids, LAMBDA k : k.tag = tag)

MessageText(c) == textContent(querySelector(EnvelopeEl(c), "Message"))

CodeText(c) == textContent(querySelector(EnvelopeEl(c), "Code"))

\* The call has checked the status code of an envelope that decoded to the
\* integer n.
CheckedCode(c, n) ==
    pc[c] = "done" /\ Ran(c, "status") /\ ~res[c].code.nan /\ res[c].code.v = n

----------------------------------------------------------------------------
\* C1: getLawlists, getLawdata and getUpdatelawlists decode the payload
\* (and return what the decoder gives) when the envelope's code is 0; for
\* every other code, NaN included, they throw Error with the envelope's
\* Message text and never run the payload decoder.
C1_OnlyNormalAccepted ==
    \A c \in Calls :
        (/\ op[c] \in {"getLawlists", "getLawdata", "getUpdatelawlists"}
         /\ pc[c] = "done"
         /\ Ran(c, "status"))
        => IF CheckedCode(c, 0)
           THEN /\ Ran(c, "decode")
                /\ outcome[c] = Decode(op[c], PayloadEl(c))
           ELSE /\ ~Ran(c, "decode")
                /\ outcome[c] = ThrowError(MessageText(c))

\* A list of updated laws answered with code 2 is rejected with the message.
C1_Witness ==
    \E c \in Calls :
        /\ op[c] = "getUpdatelawlists"
        /\ CheckedCode(c, 2)
        /\ Thrown(c, "Error")
        /\ outcome[c].val.message = <<"m">>

\* C2: getArticles decodes the payload exactly when the envelope's code is
\* 0 or 2; for every other code it throws Error with the envelope's Message
\* text and never runs the Articles decoder.
C2_NormalOrCandidatesAccepted ==
    \A c \in Calls :
        (op[c] = "getArticles" /\ pc[c] = "done" /\ Ran(c, "status"))
        => IF CheckedCode(c, 0) \/ CheckedCode(c, 2)
           THEN /\ Ran(c, "decode")
                /\ outcome[c] = Articles_fromElement(PayloadEl(c))
           ELSE /\ ~Ran(c, "decode")
                /\ outcome[c] = ThrowError(MessageText(c))

\* Articles answered with code 2 are returned with their candidate titles,
\* in document order.
C2_Witness ==
    \E c \in Calls :
        /\ op[c] = "getArticles"
        /\ CheckedCode(c, 2)
        /\ outcome[c].ok
        /\ outcome[c].val.AppdxTableTitleLists
               = <<[AppdxTableTitle |-> <<(<<"t", "2">>), (<<"t", "1">>)>>]>>

\* C3: getUpdatelawlists rejects a date before 2020-11-24T00:00+09:00 as
\* too early and a date after the current instant as a future date, both
\* without calling the transport; the lower bound itself and the current
\* instant itself are not rejected.
C3_RangeCheckedBeforeTransport ==
    \A c \in Calls :
        (op[c] = "getUpdatelawlists" /\ pc[c] # "idle" /\ ~arg[c].date.nan)
        => /\ arg[c].date.v < MakeTime(2020, 11, 24, 0, JstOffset)
              => /\ outcome[c] = ThrowRangeError("too early")
                 /\ fetchLog[c] = <<>>
           /\ (/\ arg[c].date.v >= MakeTime(2020, 11, 24, 0, JstOffset)
               /\ arg[c].date.v > startedAt[c])
              => /\ outcome[c] = ThrowRangeError("future date")
                 /\ fetchLog[c] = <<>>
           /\ (/\ arg[c].date.v >= MakeTime(2020, 11, 24, 0, JstOffset)
               /\ arg[c].date.v <= startedAt[c])
              => /\ ~Thrown(c, "RangeError")
                 /\ Len(fetchLog[c]) = 1

\* A date one minute after the current instant was rejected.
C3_Witness ==
    \E c \in Calls :
        /\ op[c] = "getUpdatelawlists"
        /\ ~arg[c].date.nan
        /\ arg[c].date.v = startedAt[c] + 1
        /\ outcome[c] = ThrowRangeError("future date")
        /\ fetchLog[c] = <<>>

\* The 8 digits of the calendar date of the instant t in a zone.
TwoDigitText(n) == <<DigitChars[(n \div 10) + 1], DigitChars[(n % 10) + 1]>>

CalendarDigits(t, off) ==
    NatToString(YearFromTime(t + off))
        \o TwoDigitText(MonthFromTime(t + off))
        \o TwoDigitText(DateFromTime(t + off))

\* C4: for every accepted date and every host zone, the URL sent to the
\* transport ends in the YYYYMMDD digits of the date's calendar day in the
\* zone +09:00.
C4_SegmentIsDateInJst ==
    \A c \in Calls :
        (op[c] = "getUpdatelawlists" /\ fetchLog[c] # <<>> /\ ~arg[c].date.nan)
        => fetchLog[c][1]
               = baseUrl \o UpdatelawlistsPath
                     \o CalendarDigits(arg[c].date.v, JstOffset)

\* C5: every operation calls the transport at most once; an outcome that
\* is not ok is thrown as it is, before any parse or decoder; a document
\* that holds the parser-error marker is thrown as that marker, before the
\* envelope and the payload decoders; a record is returned only after
\* fetch, text, parse, envelope, status check and payload decoder, in that
\* order.
C5_FailFastSingleRoundTrip ==
    \A c \in Calls :
        /\ Len(fetchLog[c]) <= 1
        /\ (pc[c] \notin {"idle", "fetch"} /\ fetchLog[c] # <<>>
                /\ ~httpRes[c].rejected /\ ~httpRes[c].ok)
           => /\ outcome[c] = ThrowResponse(httpRes[c])
              /\ trail[c] = <<"fetch">>
        /\ (Ran(c, "parseXML")
                /\ docQuerySelector(ResponseDoc(c), "parsererror") # Null)
           => /\ outcome[c]
                    = ThrowParserError(
                          docQuerySelector(ResponseDoc(c), "parsererror"))
              /\ trail[c] = <<"fetch", "text", "parseXML">>
        /\ (pc[c] = "done" /\ outcome[c].ok)
           => /\ trail[c] = <<"fetch", "text", "parseXML", "Result",
                              "status", "decode">>
              /\ httpRes[c].ok
              /\ docQuerySelector(ResponseDoc(c), "parsererror") = Null
              /\ Accepts(op[c], res[c].code)

\* A well-formed document that holds a parsererror element was thrown as
\* that element, though its envelope says 0 and its payload is complete.
C5_Witness ==
    \E c \in Calls :
        /\ Thrown(c, "parsererror")
        /\ httpRes[c].body.wellFormed
        /\ EnvelopeEl(c) # Null
        /\ PayloadEl(c) # Null

\* The text starts, after white space and a sign, with an integer: a
\* decimal digit that is not the 0 of a bare 0x.
LeadingInteger(text) ==
    LET t == TrimStart(text)
        u == IF t # <<>> /\ Head(t) \in {"-", "+"} THEN Tail(t) ELSE t
    IN  /\ u # <<>>
        /\ IsDigit(u[1])
        /\ ~(/\ Len(u) >= 2 /\ u[1] = "0" /\ u[2] \in {"x", "X"}
             /\ (Len(u) = 2 \/ ~IsHexDigit(u[3])))

\* The response has no envelope, or its envelope holds no Code element or
\* no Message element.
EnvelopeIncomplete(c) ==
    \/ EnvelopeEl(c) = Null
    \/ ~HasElement(EnvelopeEl(c), "Code")
    \/ ~HasElement(EnvelopeEl(c), "Message")

\* C6 as stated: the Result decoder throws, and no envelope reaches the
\* status check, whenever the envelope lacks Code, lacks Message or has a
\* Code whose text is not a parseable integer.
C6_UnparseableCodeIsDecodeError ==
    \A c \in Calls :
        (Ran(c, "Result")
             /\ (EnvelopeIncomplete(c) \/ ~LeadingInteger(CodeText(c))))
        => /\ outcome[c] = ThrowTypeError
           /\ ~Ran(c, "status")
           /\ res[c] = NoEnvelope

\* C6 as amended: the Result decoder throws when the envelope is absent or
\* holds no Code or no Message element; a Code without a leading integer
\* decodes to an envelope whose code is NaN, which reaches the status check
\* of the operation and is rejected there with the Message text, the
\* payload decoder never run.
C6_UnparseableCodeIsRejectedByStatus ==
    \A c \in Calls :
        Ran(c, "Result")
        => /\ EnvelopeIncomplete(c)
              => /\ outcome[c] = ThrowTypeError
                 /\ ~Ran(c, "status")
                 /\ res[c] = NoEnvelope
           /\ (~EnvelopeIncomplete(c) /\ ~LeadingInteger(CodeText(c)))
              => /\ res[c].code.nan
                 /\ res[c].message = MessageText(c)
                 /\ pc[c] \in {"resume", "done"}
                 /\ pc[c] = "done"
                    => /\ Ran(c, "status")
                       /\ ~Ran(c, "decode")
                       /\ outcome[c] = ThrowError(MessageText(c))

\* A response whose Code is the text x was rejected by the status check.
C6_Witness ==
    \E c \in Calls :
        /\ CodeText(c) = <<"x">>
        /\ ~EnvelopeIncomplete(c)
        /\ Ran(c, "status")
        /\ Thrown(c, "Error")

\* The children a payload must have, and those each of its list entries
\* must have, for an operation.
RequiredChildren(o) ==
    CASE o = "getLawlists"       -> {"Category"}
      [] o = "getLawdata"        -> {"LawId", "LawNum", "LawFullText"}
      [] o = "getArticles"       -> {"LawId", "LawNum", "Article", "Paragraph",
                                     "AppdxTable", "LawContents"}
      [] o = "getUpdatelawlists" -> {"Date"}

RequiredOfEntry(o) ==
    CASE o = "getLawlists" ->
             {"LawId", "LawName", "LawNo", "PromulgationDate"}
      [] o = "getUpdatelawlists" ->
             {"LawTypeName", "LawNo", "LawName", "LawNameKana", "OldLawName",
              "PromulgationDate", "AmendName", "AmendNo",
              "AmendPromulgationDate", "EnforcementDate",
              "EnforcementComment", "LawId", "LawUrl", "EnforcementFlg",
              "AuthFlg"}
      [] OTHER -> {}

MissingRequired(o, data) ==
    \/ data = Null
    \/ \E g \in RequiredChildren(o) : ~HasChild(data, g)
    \/ \E i \in 1..Len(ChildrenNamed(data, "LawNameListInfo")) :
           \E g \in RequiredOfEntry(o) :
               ~HasChild(ChildrenNamed(data, "LawNameListInfo")[i], g)

\* C7: when the payload element is absent, or lacks a required child, or a
\* list entry of it lacks a required child, the call throws a decode
\* failure and returns no record.
C7_MissingRequiredChildFails ==
    \A c \in Calls :
        (Ran(c, "decode") /\ MissingRequired(op[c], PayloadEl(c)))
        => outcome[c] = ThrowTypeError

\* The parameter segment of the URL a getArticles call sent.
ArticlesSegment(c) ==
    SubSeq(fetchLog[c][1], Len(baseUrl \o ArticlesPath) + 1,
           Len(fetchLog[c][1]))

KeysOf(params) == {params[i].k : i \in 1..Len(params)}

ValueOf(params, key) ==
    params[CHOOSE i \in 1..Len(params) : params[i].k = key].v

KeyValue(e) == e.k \o <<"=">> \o e.v

\* C8 as stated: for params of article alone the segment is article=a, and
\* for params of article and paragraph it is article=a;paragraph=p, in
\* whatever order the object lists the two.
C8_ArticleBeforeParagraph ==
    \A c \in Calls :
        (op[c] = "getArticles" /\ fetchLog[c] # <<>>)
        => /\ KeysOf(arg[c].params) = {KeyArticle}
              => ArticlesSegment(c)
                     = KeyArticle \o <<"=">>
                         \o ValueOf(arg[c].params, KeyArticle)
           /\ KeysOf(arg[c].params) = {KeyArticle, KeyParagraph}
              => ArticlesSegment(c)
                     = KeyArticle \o <<"=">>
                         \o ValueOf(arg[c].params, KeyArticle)
                         \o <<";">> \o KeyParagraph \o <<"=">>
                         \o ValueOf(arg[c].params, KeyParagraph)

\* C8 as amended: each field becomes one key=value segment, the segments
\* joined by ';' in the order the object lists its fields: article=a for
\* article alone, article=a;paragraph=p when article is listed first and
\* paragraph=p;article=a when paragraph is listed first.
C8_SegmentsInListedOrder ==
    \A c \in Calls :
        (op[c] = "getArticles" /\ fetchLog[c] # <<>>)
        => /\ fetchLog[c][1]
                 = baseUrl \o ArticlesPath \o ArticlesSegment(c)
           /\ Len(arg[c].params) = 1
              => ArticlesSegment(c) = KeyValue(arg[c].params[1])
           /\ Len(arg[c].params) = 2
              => ArticlesSegment(c)
                     = KeyValue(arg[c].params[1]) \o <<";">>
                         \o KeyValue(arg[c].params[2])
           /\ Len(arg[c].params) = 3
              => ArticlesSegment(c)
                     = KeyValue(arg[c].params[1]) \o <<";">>
                         \o KeyValue(arg[c].params[2])
                         \o <<";">> \o KeyValue(arg[c].params[3])
           /\ Len(arg[c].params) \in 1..3

\* Params that list paragraph before article were sent in that order.
C8_Witness ==
    \E c \in Calls :
        /\ op[c] = "getArticles"
        /\ fetchLog[c] # <<>>
        /\ arg[c].params = <<PParagraph, PArticle>>
        /\ ArticlesSegment(c)
               = KeyParagraph \o <<"=", "2", ";">> \o KeyArticle
                     \o <<"=", "3">>

\* What a call of operation o with argument a, made at the instant now and
\* answered by the transport with r, comes to when it runs alone.
RunAlone(o, a, now, r) ==
    IF ~Precheck(o, a, Num(now)).ok THEN Precheck(o, a, Num(now))
    ELSE IF r.rejected THEN ThrowNetworkError
    ELSE IF ~r.ok THEN ThrowResponse(r)
    ELSE IF ~r.readable THEN ThrowNetworkError
    ELSE IF ~parseXML(r.body).ok THEN parseXML(r.body)
    ELSE IF ~Envelope(parseXML(r.body).val).ok
         THEN Envelope(parseXML(r.body).val)
    ELSE AfterRequest(o, Envelope(parseXML(r.body).val).val)

\* C9: whatever the interleaving of the calls in flight, each call ends as
\* it would alone with the same argument and the same response, and has
\* sent the transport its own request alone.
C9_CallsAreIndependent ==
    \A c \in Calls :
        pc[c] = "done"
        => /\ outcome[c] = RunAlone(op[c], arg[c], startedAt[c], httpRes[c])
           /\ fetchLog[c]
                  = IF Precheck(op[c], arg[c], Num(startedAt[c])).ok
                    THEN <<UriOf(op[c], arg[c], tza)>>
                    ELSE <<>>

\* A call returned its record while another call, answered differently,
\* was still waiting to resume.
C9_Witness ==
    \E c, d \in Calls :
        /\ c # d
        /\ pc[c] = "done"
        /\ outcome[c].ok
        /\ pc[d] = "resume"
        /\ httpRes[c] # httpRes[d]

\* C10: every URL getUpdatelawlists passes to the transport ends in
\* /updatelawlists/ and exactly eight decimal digits, an invalid Date
\* included.
C10_UrlEndsInEightDigits ==
    \A c \in Calls :
        (op[c] = "getUpdatelawlists" /\ fetchLog[c] # <<>>)
        => /\ Len(fetchLog[c][1]) = Len(baseUrl \o UpdatelawlistsPath) + 8
           /\ SubSeq(fetchLog[c][1], 1, Len(baseUrl \o UpdatelawlistsPath))
                  = baseUrl \o UpdatelawlistsPath
           /\ AllDigits(SliceLast(fetchLog[c][1], 8))

====
